---- MODULE Spec2Model ----
(***************************************************************************)
(* Model of the 6502 CPU core of nes-rs (src/src/cpu.rs) attached to the   *)
(* flat 64 KiB RAM bus (src/src/bus.rs).  The host serialises calls of the *)
(* public methods of Cpu; every call is one action.  Integer widths are    *)
(* kept: u8 and u16 arithmetic written with +, - and << either wraps or    *)
(* aborts the program, depending on whether the build checks overflow.     *)
(***************************************************************************)
EXTENDS Integers, Sequences, FiniteSets, TLC

(* ------------------------------ bounds --------------------------------- *)
\* calls of reset() in one run
MaxResets == 2
\* calls of clock() that start an instruction (cycles = 0 on entry)
MaxInstr == 1
\* calls of irq() and nmi()
MaxInts == 1
\* direct calls of the public operation methods
MaxOps == 1

(* --------------------------- status flags ------------------------------ *)
CARRY == 1
ZERO == 2
INTERRUPT_DISABLE == 4
DECIMAL_MODE == 8
BREAK == 16
UNUSED == 32
OVERFLOW == 64
NEGATIVE == 128

\* u8 and u16 value ranges
U8 == 256
U16 == 65536

\* first address of the stack page
STACK_BASE == 256

\* interrupt and reset vectors
NMI_VECTOR == 65530
RESET_VECTOR == 65532
IRQ_VECTOR == 65534

RECURSIVE BitAnd(_, _)
BitAnd(m, n) ==
  IF m = 0 \/ n = 0 THEN 0
  ELSE ((m % 2) * (n % 2)) + 2 * BitAnd(m \div 2, n \div 2)

RECURSIVE BitOr(_, _)
BitOr(m, n) ==
  IF m = 0 THEN n
  ELSE IF n = 0 THEN m
  ELSE (IF (m % 2) + (n % 2) > 0 THEN 1 ELSE 0) + 2 * BitOr(m \div 2, n \div 2)

\* StatusFlags::contains
get_flag(p, f) == BitAnd(p, f) = f

\* StatusFlags::insert / remove
set_flag(p, f, v) ==
  IF v THEN BitOr(p, f) ELSE p - BitAnd(p, f)

Hi(w) == (w \div 256) % 256
Lo(w) == w % 256
Word(lo, hi) == hi * 256 + lo

(* ------------------------- instruction table --------------------------- *)
E(n, m, c) == [op |-> n, mode |-> m, cycles |-> c]

LOOKUP ==
  <<
    E("BRK","IMP",7), E("ORA","IZX",6), E("XXX","IMP",2), E("XXX","IMP",2), E("XXX","IMP",2), E("ORA","ZP0",3), E("ASL","ZP0",5), E("XXX","IMP",2), E("PHP","IMP",3), E("ORA","IMM",2), E("ASL","IMP",2), E("XXX","IMP",2), E("XXX","IMP",2), E("ORA","ABS",4), E("ASL","ABS",6), E("XXX","IMP",2),
    E("BPL","REL",2), E("ORA","IZY",5), E("XXX","IMP",2), E("XXX","IMP",2), E("XXX","IMP",2), E("ORA","ZPX",4), E("ASL","ZPX",6), E("XXX","IMP",2), E("CLC","IMP",2), E("ORA","ABY",4), E("XXX","IMP",2), E("XXX","IMP",2), E("NOP","IMP",4), E("ORA","ABX",4), E("ASL","ABX",7), E("XXX","IMP",2),
    E("JSR","ABS",6), E("AND","IZX",6), E("XXX","IMP",2), E("XXX","IMP",2), E("BIT","ZP0",3), E("AND","ZP0",3), E("ROL","ZP0",5), E("XXX","IMP",2), E("PLP","IMP",4), E("AND","IMM",2), E("ROL","IMP",2), E("XXX","IMP",2), E("BIT","ABS",4), E("AND","ABS",4), E("ROL","ABS",6), E("XXX","IMP",2),
    E("BMI","REL",2), E("AND","IZY",5), E("XXX","IMP",2), E("XXX","IMP",2), E("XXX","IMP",2), E("AND","ZPX",4), E("ROL","ZPX",6), E("XXX","IMP",2), E("SEC","IMP",2), E("AND","ABY",4), E("XXX","IMP",2), E("XXX","IMP",2), E("NOP","IMP",4), E("AND","ABX",4), E("ROL","ABX",7), E("XXX","IMP",2),
    E("RTI","IMP",6), E("EOR","IZX",6), E("XXX","IMP",2), E("XXX","IMP",2), E("XXX","IMP",2), E("EOR","ZP0",3), E("LSR","ZP0",5), E("XXX","IMP",2), E("PHA","IMP",3), E("EOR","IMM",2), E("LSR","IMP",2), E("XXX","IMP",2), E("JMP","ABS",3), E("EOR","ABS",4), E("LSR","ABS",6), E("XXX","IMP",2),
    E("BVC","REL",2), E("EOR","IZY",5), E("XXX","IMP",2), E("XXX","IMP",2), E("XXX","IMP",2), E("EOR","ZPX",4), E("LSR","ZPX",6), E("XXX","IMP",2), E("CLI","IMP",2), E("EOR","ABY",4), E("XXX","IMP",2), E("XXX","IMP",2), E("NOP","IMP",4), E("EOR","ABX",4), E("LSR","ABX",7), E("XXX","IMP",2),
    E("RTS","IMP",6), E("ADC","IZX",6), E("XXX","IMP",2), E("XXX","IMP",2), E("XXX","IMP",2), E("ADC","ZP0",3), E("ROR","ZP0",5), E("XXX","IMP",2), E("PLA","IMP",4), E("ADC","IMM",2), E("ROR","IMP",2), E("XXX","IMP",2), E("JMP","IND",5), E("ADC","ABS",4), E("ROR","ABS",6), E("XXX","IMP",2),
    E("BVS","REL",2), E("ADC","IZY",5), E("XXX","IMP",2), E("XXX","IMP",2), E("XXX","IMP",2), E("ADC","ZPX",4), E("ROR","ZPX",6), E("XXX","IMP",2), E("SEI","IMP",2), E("ADC","ABY",4), E("XXX","IMP",2), E("XXX","IMP",2), E("NOP","IMP",4), E("ADC","ABX",4), E("ROR","ABX",7), E("XXX","IMP",2),
    E("XXX","IMP",2), E("STA","IZX",6), E("XXX","IMP",2), E("XXX","IMP",2), E("STY","ZP0",3), E("STA","ZP0",3), E("STX","ZP0",3), E("XXX","IMP",2), E("DEY","IMP",2), E("XXX","IMP",2), E("TXA","IMP",2), E("XXX","IMP",2), E("STY","ABS",4), E("STA","ABS",4), E("STX","ABS",4), E("XXX","IMP",2),
    E("BCC","REL",2), E("STA","IZY",6), E("XXX","IMP",2), E("XXX","IMP",2), E("STY","ZPX",4), E("STA","ZPX",4), E("STX","ZPY",4), E("XXX","IMP",2), E("TYA","IMP",2), E("STA","ABY",5), E("TXS","IMP",2), E("XXX","IMP",2), E("XXX","IMP",2), E("STA","ABX",5), E("XXX","IMP",2), E("XXX","IMP",2),
    E("LDY","IMM",2), E("LDA","IZX",6), E("LDX","IMM",2), E("XXX","IMP",2), E("LDY","ZP0",3), E("LDA","ZP0",3), E("LDX","ZP0",3), E("XXX","IMP",2), E("TAY","IMP",2), E("LDA","IMM",2), E("TAX","IMP",2), E("XXX","IMP",2), E("LDY","ABS",4), E("LDA","ABS",4), E("LDX","ABS",4), E("XXX","IMP",2),
    E("BCS","REL",2), E("LDA","IZY",5), E("XXX","IMP",2), E("XXX","IMP",2), E("LDY","ZPX",4), E("LDA","ZPX",4), E("LDX","ZPY",4), E("XXX","IMP",2), E("CLV","IMP",2), E("LDA","ABY",4), E("TSX","IMP",2), E("XXX","IMP",2), E("LDY","ABX",4), E("LDA","ABX",4), E("LDX","ABY",4), E("XXX","IMP",2),
    E("CPY","IMM",2), E("CMP","IZX",6), E("XXX","IMP",2), E("XXX","IMP",2), E("CPY","ZP0",3), E("CMP","ZP0",3), E("DEC","ZP0",5), E("XXX","IMP",2), E("INY","IMP",2), E("CMP","IMM",2), E("DEX","IMP",2), E("XXX","IMP",2), E("CPY","ABS",4), E("CMP","ABS",4), E("DEC","ABS",6), E("XXX","IMP",2),
    E("BNE","REL",2), E("CMP","IZY",5), E("XXX","IMP",2), E("XXX","IMP",2), E("XXX","IMP",2), E("CMP","ZPX",4), E("DEC","ZPX",6), E("XXX","IMP",2), E("CLD","IMP",2), E("CMP","ABY",4), E("XXX","IMP",2), E("XXX","IMP",2), E("NOP","IMP",4), E("CMP","ABX",4), E("DEC","ABX",7), E("XXX","IMP",2),
    E("CPX","IMM",2), E("SBC","IZX",6), E("XXX","IMP",2), E("XXX","IMP",2), E("CPX","ZP0",3), E("SBC","ZP0",3), E("INC","ZP0",5), E("XXX","IMP",2), E("INX","IMP",2), E("SBC","IMM",2), E("NOP","IMP",2), E("XXX","IMP",2), E("CPX","ABS",4), E("SBC","ABS",4), E("INC","ABS",6), E("XXX","IMP",2),
    E("BEQ","REL",2), E("SBC","IZY",5), E("XXX","IMP",2), E("XXX","IMP",2), E("XXX","IMP",2), E("SBC","ZPX",4), E("INC","ZPX",6), E("XXX","IMP",2), E("SED","IMP",2), E("SBC","ABY",4), E("XXX","IMP",2), E("XXX","IMP",2), E("NOP","IMP",4), E("SBC","ABX",4), E("INC","ABX",7), E("XXX","IMP",2)
  >>

Entry(opc) == LOOKUP[opc + 1]

\* operations whose method returns 1 (may pay for a page cross)
Eligible(opc) ==
  \/ Entry(opc).op \in {"ADC", "SBC", "AND", "EOR", "ORA", "LDA", "LDX", "LDY", "CMP"}
  \/ opc \in {28, 60, 92, 124, 220, 252}

(* ------------------------------- state --------------------------------- *)
VARIABLES
  a, x, y, stkp, pc, status,            \* registers
  fetched, addr_abs, addr_rel, opcode,  \* latches
  cycles,                               \* remaining cycles
  ram,                                  \* Bus.ram: address -> byte, 0 where absent
  panicked,                             \* the program aborted in a call
  overflow_checks,                      \* the build checks integer overflow
  call,                                 \* last method the host called
  ev,                                   \* what last set cycles
  since,                                \* clock() calls since ev
  c1,                                   \* decoder's return value of the last instruction
  pushedP,                              \* last status byte written to the stack, -1 if none
  snap,                                 \* machine state right after the last reset()
  redo,                                 \* the last reset() followed a reset() and its 8 drain cycles
  nreset, ninstr, nint, nops            \* calls made so far

cpuvars == <<a, x, y, stkp, pc, status, fetched, addr_abs, addr_rel, opcode, cycles>>
ghost == <<call, ev, since, c1, pushedP, snap, redo, nreset, ninstr, nint, nops>>
vars == <<cpuvars, ram, panicked, overflow_checks, ghost>>

\* the machine as one value: the Cpu fields and the RAM behind the bus
St ==
  [a |-> a, x |-> x, y |-> y, stkp |-> stkp, pc |-> pc, status |-> status,
   fetched |-> fetched, addr_abs |-> addr_abs, addr_rel |-> addr_rel,
   opcode |-> opcode, cycles |-> cycles, ram |-> ram, panicked |-> panicked,
   pushedP |-> pushedP]

Store(s) ==
  /\ a' = s.a /\ x' = s.x /\ y' = s.y /\ stkp' = s.stkp /\ pc' = s.pc
  /\ status' = s.status /\ fetched' = s.fetched /\ addr_abs' = s.addr_abs
  /\ addr_rel' = s.addr_rel /\ opcode' = s.opcode /\ cycles' = s.cycles
  /\ ram' = s.ram /\ panicked' = s.panicked /\ pushedP' = s.pushedP

(* -------------------------------- bus ---------------------------------- *)
\* Bus::read through Cpu::read
Read(s, addr) == IF addr \in DOMAIN s.ram THEN s.ram[addr] ELSE 0

\* Bus::write through Cpu::write
Write(s, addr, d) ==
  IF s.panicked THEN s
  ELSE [s EXCEPT !.ram =
          IF d = 0
          THEN [k \in (DOMAIN s.ram) \ {addr} |-> s.ram[k]]
          ELSE [k \in (DOMAIN s.ram) \cup {addr} |-> IF k = addr THEN d ELSE s.ram[k]]]

(* ------------------------ width-keeping arithmetic --------------------- *)
\* result of an overflowing +, - or << : abort when the build checks, wrap otherwise
Panic(s) == [s EXCEPT !.panicked = TRUE]

IncPc(s) ==
  IF s.panicked THEN s
  ELSE IF s.pc + 1 >= U16
       THEN (IF overflow_checks THEN Panic(s) ELSE [s EXCEPT !.pc = 0])
       ELSE [s EXCEPT !.pc = s.pc + 1]

DecStkp(s) ==
  IF s.panicked THEN s
  ELSE IF s.stkp = 0
       THEN (IF overflow_checks THEN Panic(s) ELSE [s EXCEPT !.stkp = U8 - 1])
       ELSE [s EXCEPT !.stkp = s.stkp - 1]

\* self.addr_abs += r as u16
AddAbs(s, r) ==
  IF s.panicked THEN s
  ELSE IF s.addr_abs + r >= U16
       THEN (IF overflow_checks THEN Panic(s) ELSE [s EXCEPT !.addr_abs = (s.addr_abs + r) % U16])
       ELSE [s EXCEPT !.addr_abs = s.addr_abs + r]

SetFlag(s, f, v) ==
  IF s.panicked THEN s ELSE [s EXCEPT !.status = set_flag(s.status, f, v)]

\* push of a status byte: the write and the record of what was written
PushStatus(s, d) ==
  IF s.panicked THEN s
  ELSE [Write(s, STACK_BASE + s.stkp, d) EXCEPT !.pushedP = d]

(* -------------------------- addressing modes --------------------------- *)
Dec(s, r) == [st |-> s, ret |-> r]

addr_imm(s) ==
  LET s1 == IncPc(s)
      s2 == IF s1.panicked THEN s1 ELSE [s1 EXCEPT !.addr_abs = s1.pc]
  IN Dec(s2, 0)

addr_zp0(s) ==
  LET s1 == [s EXCEPT !.addr_abs = Read(s, s.pc)]
      s2 == IncPc(s1)
      s3 == IF s2.panicked THEN s2 ELSE [s2 EXCEPT !.addr_abs = s2.addr_abs % 256]
  IN Dec(s3, 0)

\* (self.read(self.pc) + r) as u16 : the sum is a u8 sum
ZpIndexed(s, r) ==
  LET sum == Read(s, s.pc) + r
      s1 == IF sum >= U8
            THEN (IF overflow_checks THEN Panic(s) ELSE [s EXCEPT !.addr_abs = sum % U8])
            ELSE [s EXCEPT !.addr_abs = sum]
      s2 == IncPc(s1)
      s3 == IF s2.panicked THEN s2 ELSE [s2 EXCEPT !.addr_abs = s2.addr_abs % 256]
  IN Dec(s3, 0)

addr_zpx(s) == ZpIndexed(s, s.x)

addr_zpy(s) == ZpIndexed(s, s.y)

addr_rel_mode(s) ==
  LET d == Read(s, s.pc)
      s1 == [s EXCEPT !.addr_rel = d]
      s2 == IncPc(s1)
      s3 == IF s2.panicked THEN s2
            ELSE IF s2.addr_rel >= 128 THEN [s2 EXCEPT !.addr_rel = 65280 + s2.addr_rel] ELSE s2
  IN Dec(s3, 0)

addr_abs_mode(s) ==
  LET lo == Read(s, s.pc)
      s1 == IncPc(s)
      hi == Read(s1, s1.pc)
      s2 == IncPc(s1)
      s3 == IF s2.panicked THEN s2 ELSE [s2 EXCEPT !.addr_abs = Word(lo, hi)]
  IN Dec(s3, 0)

\* shared body of addr_abx and addr_aby
AbsIndexed(s, r) ==
  LET lo == Read(s, s.pc)
      s1 == IncPc(s)
      hi == Read(s1, s1.pc)
      s2 == IncPc(s1)
      s3 == IF s2.panicked THEN s2 ELSE [s2 EXCEPT !.addr_abs = Word(lo, hi)]
      s4 == AddAbs(s3, r)
  IN Dec(s4, IF (~s4.panicked) /\ Hi(s4.addr_abs) # hi THEN 1 ELSE 0)

addr_abx(s) == AbsIndexed(s, s.x)

addr_aby(s) == AbsIndexed(s, s.y)

\* (self.read(h) << 8) | self.read(l) is computed in u8: a shift by 8 overflows the
\* width; a checking build aborts, otherwise the shift count is masked to 0
addr_ind(s) ==
  LET ptr_lo == Read(s, s.pc)
      s1 == IncPc(s)
      ptr_hi == Read(s1, s1.pc)
      s2 == IncPc(s1)
      ptr == Word(ptr_lo, ptr_hi)
      h == IF ptr_lo = 255 THEN ptr - 255 ELSE ptr + 1
      s3 == IF s2.panicked THEN s2
            ELSE IF overflow_checks THEN Panic(s2)
            ELSE [s2 EXCEPT !.addr_abs = BitOr(Read(s2, h), Read(s2, ptr))]
  IN Dec(s3, 0)

addr_izx(s) ==
  LET t == Read(s, s.pc)
      s1 == IncPc(s)
      lo == Read(s1, (t + s1.x) % 256)
      hi == Read(s1, (t + s1.x + 1) % 256)
      s2 == IF s1.panicked THEN s1 ELSE [s1 EXCEPT !.addr_abs = Word(lo, hi)]
  IN Dec(s2, 0)

addr_izy(s) ==
  LET t == Read(s, s.pc)
      s1 == IncPc(s)
      lo == Read(s1, t % 256)
      hi == Read(s1, (t + 1) % 256)
      s2 == IF s1.panicked THEN s1 ELSE [s1 EXCEPT !.addr_abs = Word(lo, hi)]
      s3 == AddAbs(s2, s2.y)
  IN Dec(s3, IF (~s3.panicked) /\ Hi(s3.addr_abs) # hi THEN 1 ELSE 0)

get_operand_address(s, mode) ==
  CASE mode = "IMM" -> addr_imm(s)
    [] mode = "ZP0" -> addr_zp0(s)
    [] mode = "ZPX" -> addr_zpx(s)
    [] mode = "ZPY" -> addr_zpy(s)
    [] mode = "ABS" -> addr_abs_mode(s)
    [] mode = "ABX" -> addr_abx(s)
    [] mode = "ABY" -> addr_aby(s)
    [] mode = "IND" -> addr_ind(s)
    [] mode = "IZX" -> addr_izx(s)
    [] mode = "IZY" -> addr_izy(s)
    [] mode = "REL" -> addr_rel_mode(s)
    [] OTHER -> Dec(s, 0)

(* ------------------------------ Cpu::clock ----------------------------- *)
Upd(s, t) == IF s.panicked THEN s ELSE t

\* variant: the test is made one cycle early
FetchDueEarly(s) == s.cycles <= 1

\* the test that starts a new instruction
FetchDue(s) == s.cycles = 0

\* opcode fetch, pc step and base cycle count
ClockFetch(s) ==
  LET s1 == [s EXCEPT !.opcode = Read(s, s.pc)]
      s2 == IncPc(s1)
  IN Upd(s2, [s2 EXCEPT !.cycles = Entry(s2.opcode).cycles])

\* the decoder run by clock() on the fetched opcode
ClockDecode(s) ==
  LET f == ClockFetch(s)
  IN IF f.panicked THEN Dec(f, 0) ELSE get_operand_address(f, Entry(f.opcode).mode)

\* additional cycles for operation: the constant clock() uses
add_cycles2 == 0

DecCycles(s) ==
  IF s.panicked THEN s
  ELSE IF s.cycles = 0
       THEN (IF overflow_checks THEN Panic(s) ELSE [s EXCEPT !.cycles = U8 - 1])
       ELSE [s EXCEPT !.cycles = s.cycles - 1]

Clock(s) ==
  IF FetchDue(s)
  THEN LET d == ClockDecode(s)
           s1 == Upd(d.st, [d.st EXCEPT !.cycles = d.st.cycles + BitAnd(d.ret, add_cycles2)])
       IN DecCycles(s1)
  ELSE DecCycles(s)

(* ------------------------------ Cpu::reset ----------------------------- *)
\* variant: reset() moves the stack pointer down by three, as the hardware does
ResetStkpRelative(s) == (s.stkp + 253) % 256

\* stack pointer set by reset()
ResetStkp(s) == 253

Reset(s) ==
  LET lo == Read(s, RESET_VECTOR)
      hi == Read(s, RESET_VECTOR + 1)
  IN [s EXCEPT !.a = 0, !.x = 0, !.y = 0, !.stkp = ResetStkp(s), !.status = 0,
               !.pc = Word(lo, hi), !.addr_rel = 0, !.addr_abs = 0, !.fetched = 0,
               !.cycles = 8]

(* --------------------------- Cpu::irq, Cpu::nmi ------------------------ *)
\* push pc, set the flags, push the status byte, load pc from the vector
Interrupt(s, vector, n) ==
  LET s1 == Write(s, STACK_BASE + s.stkp, Hi(s.pc))
      s2 == DecStkp(s1)
      s3 == Write(s2, STACK_BASE + s2.stkp, Lo(s2.pc))
      s4 == DecStkp(s3)
      s5 == SetFlag(s4, BREAK, FALSE)
      s6 == SetFlag(s5, UNUSED, TRUE)
      s7 == SetFlag(s6, INTERRUPT_DISABLE, TRUE)
      s8 == PushStatus(s7, s7.status)
      s9 == DecStkp(s8)
      s10 == Upd(s9, [s9 EXCEPT !.addr_abs = vector])
  IN Upd(s10, [s10 EXCEPT !.pc = Word(Read(s10, vector), Read(s10, vector + 1)),
                           !.cycles = n])

\* variant: the mask is not consulted
IrqAcceptedAlways(s) == TRUE

\* irq() is honoured only with I clear
IrqAccepted(s) == ~get_flag(s.status, INTERRUPT_DISABLE)

Irq(s) == IF IrqAccepted(s) THEN Interrupt(s, IRQ_VECTOR, 7) ELSE s

Nmi(s) == Interrupt(s, NMI_VECTOR, 8)

(* --------------------------- operation methods ------------------------- *)
SetZN(s, v) ==
  SetFlag(SetFlag(s, ZERO, v = 0), NEGATIVE, v >= 128)

inx(s) ==
  LET s1 == IF s.x + 1 >= U8
            THEN (IF overflow_checks THEN Panic(s) ELSE [s EXCEPT !.x = 0])
            ELSE [s EXCEPT !.x = s.x + 1]
  IN SetZN(s1, s1.x)

txs(s) == [s EXCEPT !.stkp = s.x]

brk(s) ==
  LET s1 == IncPc(s)
      s2 == SetFlag(s1, INTERRUPT_DISABLE, TRUE)
      s3 == Write(s2, STACK_BASE + s2.stkp, Hi(s2.pc))
      s4 == DecStkp(s3)
      s5 == Write(s4, STACK_BASE + s4.stkp, Lo(s4.pc))
      s6 == DecStkp(s5)
      s7 == SetFlag(s6, BREAK, TRUE)
      s8 == PushStatus(s7, s7.status)
      s9 == DecStkp(s8)
      s10 == SetFlag(s9, BREAK, FALSE)
  IN Upd(s10, [s10 EXCEPT !.pc = Word(Read(s10, IRQ_VECTOR), Read(s10, IRQ_VECTOR + 1))])

php(s) ==
  LET s1 == PushStatus(s, BitOr(BitOr(s.status, BREAK), UNUSED))
      s2 == SetFlag(s1, BREAK, FALSE)
      s3 == SetFlag(s2, UNUSED, FALSE)
  IN DecStkp(s3)

(* ------------------------------ RAM images ----------------------------- *)
\* reset -> $8000: LDA #$42 ; STA $FF,X     nmi -> $9000: STA $80FF,X
\* irq -> $A000: LDA $80FF,X
ProgramImage ==
  (65533 :> 128) @@ (32768 :> 169) @@ (32769 :> 66) @@
  (32770 :> 149) @@ (32771 :> 255) @@
  (65531 :> 144) @@ (36864 :> 157) @@ (36865 :> 255) @@ (36866 :> 128) @@
  (65535 :> 160) @@ (40960 :> 189) @@ (40961 :> 255) @@ (40962 :> 128)

\* reset -> $FFFF, where a BRK byte ends the address space
WrapImage == (65532 :> 255) @@ (65533 :> 255)

Images == {ProgramImage, WrapImage}

(* ------------------------------- actions ------------------------------- *)
\* the Cpu fields and the RAM, without the bookkeeping
View(s) ==
  [a |-> s.a, x |-> s.x, y |-> s.y, stkp |-> s.stkp, pc |-> s.pc, status |-> s.status,
   fetched |-> s.fetched, addr_abs |-> s.addr_abs, addr_rel |-> s.addr_rel,
   opcode |-> s.opcode, cycles |-> s.cycles, ram |-> s.ram]

\* Cpu::new, Bus::new and the host's program load
Init ==
  /\ a = 0 /\ x = 0 /\ y = 0 /\ stkp = 0 /\ pc = 0 /\ status = 255
  /\ fetched = 0 /\ addr_abs = 0 /\ addr_rel = 0 /\ opcode = 0 /\ cycles = 0
  /\ ram \in Images
  /\ panicked = FALSE
  /\ overflow_checks \in BOOLEAN
  /\ call = "new" /\ ev = "none" /\ since = 0 /\ c1 = 0 /\ pushedP = -1
  /\ redo = FALSE
  /\ snap = View([a |-> 0, x |-> 0, y |-> 0, stkp |-> 0, pc |-> 0, status |-> 255,
                  fetched |-> 0, addr_abs |-> 0, addr_rel |-> 0, opcode |-> 0,
                  cycles |-> 0, ram |-> ram])
  /\ nreset = 0 /\ ninstr = 0 /\ nint = 0 /\ nops = 0

\* reset() has been called: the precondition of every other call
Started == nreset > 0

ResetCall ==
  /\ ~panicked /\ nreset < MaxResets
  /\ Store(Reset(St))
  /\ call' = "reset" /\ ev' = "reset" /\ since' = 0
  /\ snap' = View(Reset(St))
  /\ redo' = (ev = "reset" /\ since = 8)
  /\ nreset' = nreset + 1
  /\ UNCHANGED <<overflow_checks, c1, ninstr, nint, nops>>

ClockCall ==
  /\ Started /\ ~panicked
  /\ FetchDue(St) => ninstr < MaxInstr
  /\ Store(Clock(St))
  /\ call' = "clock"
  /\ IF FetchDue(St)
     THEN /\ ev' = "instr" /\ since' = 1 /\ c1' = ClockDecode(St).ret
          /\ ninstr' = ninstr + 1
     ELSE /\ since' = since + 1
          /\ UNCHANGED <<ev, c1, ninstr>>
  /\ UNCHANGED <<overflow_checks, snap, redo, nreset, nint, nops>>

IrqCall ==
  /\ Started /\ ~panicked /\ nint < MaxInts
  /\ Store(Irq(St))
  /\ call' = "irq"
  /\ IF IrqAccepted(St) THEN ev' = "irq" /\ since' = 0 ELSE UNCHANGED <<ev, since>>
  /\ nint' = nint + 1
  /\ UNCHANGED <<overflow_checks, c1, snap, redo, nreset, ninstr, nops>>

NmiCall ==
  /\ Started /\ ~panicked /\ nint < MaxInts
  /\ Store(Nmi(St))
  /\ call' = "nmi" /\ ev' = "nmi" /\ since' = 0
  /\ nint' = nint + 1
  /\ UNCHANGED <<overflow_checks, c1, snap, redo, nreset, ninstr, nops>>

\* a direct call of a public operation method, between instructions
OpCall(name, s) ==
  /\ Started /\ ~panicked /\ nops < MaxOps /\ cycles = 0
  /\ Store(s)
  /\ call' = name /\ ev' = "op"
  /\ nops' = nops + 1
  /\ UNCHANGED <<overflow_checks, since, c1, snap, redo, nreset, ninstr, nint>>

InxCall == OpCall("inx", inx(St))

TxsCall == OpCall("txs", txs(St))

BrkCall == OpCall("brk", brk(St))

PhpCall == OpCall("php", php(St))

Next ==
  \/ ResetCall
  \/ ClockCall
  \/ IrqCall
  \/ NmiCall
  \/ InxCall
  \/ TxsCall
  \/ BrkCall
  \/ PhpCall

Spec == Init /\ [][Next]_vars

TypeOK ==
  /\ a \in 0..255 /\ x \in 0..255 /\ y \in 0..255 /\ stkp \in 0..255
  /\ pc \in 0..65535 /\ status \in 0..255 /\ fetched \in 0..255
  /\ addr_abs \in 0..65535 /\ addr_rel \in 0..65535 /\ opcode \in 0..255
  /\ cycles \in 0..255
  /\ \A k \in DOMAIN ram : k \in 0..65535 /\ ram[k] \in 1..255

(* ------------------- operation methods run after clock() --------------- *)
RECURSIVE BitXor(_, _)
BitXor(m, n) ==
  IF m = 0 THEN n
  ELSE IF n = 0 THEN m
  ELSE ((m + n) % 2) + 2 * BitXor(m \div 2, n \div 2)

\* matches!(self.lookup[self.opcode as usize].mode, AddressingMode::Implied)
ModeImplied(s) == Entry(s.opcode).mode = "IMP"

fetch(s) ==
  IF s.panicked \/ ModeImplied(s) THEN s
  ELSE [s EXCEPT !.fetched = Read(s, s.addr_abs)]

\* self.stkp += 1
IncStkp(s) ==
  IF s.panicked THEN s
  ELSE IF s.stkp + 1 >= U8
       THEN (IF overflow_checks THEN Panic(s) ELSE [s EXCEPT !.stkp = 0])
       ELSE [s EXCEPT !.stkp = s.stkp + 1]

pha(s) ==
  LET s1 == Write(s, STACK_BASE + s.stkp, s.a)
  IN DecStkp(s1)

pla(s) ==
  LET s1 == IncStkp(s)
      s2 == Upd(s1, [s1 EXCEPT !.a = Read(s1, STACK_BASE + s1.stkp)])
  IN SetZN(s2, s2.a)

jmp(s) == [s EXCEPT !.pc = s.addr_abs]

\* carry-in of adc, sbc, rol and ror
CarryIn(s) == IF get_flag(s.status, CARRY) THEN 1 ELSE 0

\* flags and accumulator of adc and sbc from the 16-bit sum a + value + C
AddWithCarry(s, value, v) ==
  LET temp == s.a + value + CarryIn(s)
      s1 == SetFlag(s, CARRY, temp > 255)
      s2 == SetFlag(s1, ZERO, temp % 256 = 0)
      s3 == SetFlag(s2, OVERFLOW, v)
      s4 == SetFlag(s3, NEGATIVE, BitAnd(temp, 128) # 0)
  IN Upd(s4, [s4 EXCEPT !.a = temp % 256])

\* variant: the carry flag is not added
adc_no_carry(s) ==
  LET f == fetch(s)
      temp == f.a + f.fetched
      s1 == SetFlag(f, CARRY, temp > 255)
      s2 == SetFlag(s1, ZERO, temp % 256 = 0)
      s3 == SetFlag(s2, OVERFLOW,
              BitAnd(BitAnd(65535 - BitXor(f.a, f.fetched), BitXor(f.a, temp)), 128) # 0)
      s4 == SetFlag(s3, NEGATIVE, BitAnd(temp, 128) # 0)
  IN Upd(s4, [s4 EXCEPT !.a = temp % 256])

adc(s) ==
  LET f == fetch(s)
      temp == f.a + f.fetched + CarryIn(f)
  IN AddWithCarry(f, f.fetched,
       BitAnd(BitAnd(65535 - BitXor(f.a, f.fetched), BitXor(f.a, temp)), 128) # 0)

sbc(s) ==
  LET f == fetch(s)
      value == BitXor(f.fetched, 255)
      temp == f.a + value + CarryIn(f)
  IN AddWithCarry(f, value,
       BitAnd(BitAnd(BitXor(temp, f.a), BitXor(temp, value)), 128) # 0)

\* shared body of cmp, cpx and cpy: (r as u16) - (self.fetched as u16)
Compare(s, reg) ==
  LET f == fetch(s)
      r == IF reg = "a" THEN f.a ELSE IF reg = "x" THEN f.x ELSE f.y
      s0 == IF f.panicked THEN f
            ELSE IF r < f.fetched /\ overflow_checks THEN Panic(f) ELSE f
      temp == (r - f.fetched + U16) % U16
      s1 == SetFlag(s0, CARRY, r >= f.fetched)
      s2 == SetFlag(s1, ZERO, temp % 256 = 0)
  IN SetFlag(s2, NEGATIVE, BitAnd(temp, 128) # 0)

cmp(s) == Compare(s, "a")

cpx(s) == Compare(s, "x")

cpy(s) == Compare(s, "y")

\* result of a shift or rotate: to a in implied mode, to addr_abs otherwise
ShiftStore(s, r) ==
  IF s.panicked THEN s
  ELSE IF ModeImplied(s) THEN [s EXCEPT !.a = r]
  ELSE Write(s, s.addr_abs, r)

asl(s) ==
  LET f == fetch(s)
      temp == f.fetched * 2
      s1 == SetFlag(f, CARRY, temp > 255)
      s2 == SetFlag(s1, ZERO, temp % 256 = 0)
      s3 == SetFlag(s2, NEGATIVE, BitAnd(temp, 128) # 0)
  IN ShiftStore(s3, temp % 256)

lsr(s) ==
  LET f == fetch(s)
      s1 == SetFlag(f, CARRY, f.fetched % 2 = 1)
      temp == f.fetched \div 2
      s2 == SetFlag(s1, ZERO, temp = 0)
      s3 == SetFlag(s2, NEGATIVE, BitAnd(temp, 128) # 0)
  IN ShiftStore(s3, temp)

rol(s) ==
  LET f == fetch(s)
      temp == f.fetched * 2 + CarryIn(f)
      s1 == SetFlag(f, CARRY, temp > 255)
      s2 == SetFlag(s1, ZERO, temp % 256 = 0)
      s3 == SetFlag(s2, NEGATIVE, BitAnd(temp, 128) # 0)
  IN ShiftStore(s3, temp % 256)

ror(s) ==
  LET f == fetch(s)
      temp == CarryIn(f) * 128 + f.fetched \div 2
      s1 == SetFlag(f, CARRY, f.fetched % 2 = 1)
      s2 == SetFlag(s1, ZERO, temp % 256 = 0)
      s3 == SetFlag(s2, NEGATIVE, BitAnd(temp, 128) # 0)
  IN ShiftStore(s3, temp % 256)

\* shared body of the eight branch methods; taken is the flag test
Branch(s, taken) ==
  IF ~taken THEN s
  ELSE LET s1 == [s EXCEPT !.cycles = s.cycles + 1]
           sum == s1.pc + s1.addr_rel
           s2 == IF sum >= U16
                 THEN (IF overflow_checks THEN Panic(s1)
                       ELSE [s1 EXCEPT !.addr_abs = sum % U16])
                 ELSE [s1 EXCEPT !.addr_abs = sum]
           s3 == IF (~s2.panicked) /\ Hi(s2.addr_abs) # Hi(s2.pc)
                 THEN [s2 EXCEPT !.cycles = s2.cycles + 1]
                 ELSE s2
       IN Upd(s3, [s3 EXCEPT !.pc = s3.addr_abs])

bcc(s) == Branch(s, ~get_flag(s.status, CARRY))

bcs(s) == Branch(s, get_flag(s.status, CARRY))

beq(s) == Branch(s, get_flag(s.status, ZERO))

bmi(s) == Branch(s, get_flag(s.status, NEGATIVE))

bne(s) == Branch(s, ~get_flag(s.status, ZERO))

bpl(s) == Branch(s, ~get_flag(s.status, NEGATIVE))

bvc(s) == Branch(s, ~get_flag(s.status, OVERFLOW))

bvs(s) == Branch(s, get_flag(s.status, OVERFLOW))

(* ------------------------ subroutine and return ------------------------ *)
\* self.pc -= 1
DecPc(s) ==
  IF s.panicked THEN s
  ELSE IF s.pc = 0
       THEN (IF overflow_checks THEN Panic(s) ELSE [s EXCEPT !.pc = U16 - 1])
       ELSE [s EXCEPT !.pc = s.pc - 1]

jsr(s) ==
  LET s1 == DecPc(s)
      s2 == Write(s1, STACK_BASE + s1.stkp, Hi(s1.pc))
      s3 == DecStkp(s2)
      s4 == Write(s3, STACK_BASE + s3.stkp, Lo(s3.pc))
      s5 == DecStkp(s4)
  IN Upd(s5, [s5 EXCEPT !.pc = s5.addr_abs])

\* pc from the two bytes above the stack pointer, low byte first
PullPc(s) ==
  LET s1 == IncStkp(s)
      s2 == Upd(s1, [s1 EXCEPT !.pc = Read(s1, STACK_BASE + s1.stkp)])
      s3 == IncStkp(s2)
  IN Upd(s3, [s3 EXCEPT !.pc = BitOr(s3.pc, Read(s3, STACK_BASE + s3.stkp) * 256)])

rts(s) == IncPc(PullPc(s))

rti(s) ==
  LET s1 == IncStkp(s)
      s2 == Upd(s1, [s1 EXCEPT !.status = Read(s1, STACK_BASE + s1.stkp)])
      s3 == SetFlag(s2, BREAK, FALSE)
      s4 == SetFlag(s3, UNUSED, FALSE)
  IN PullPc(s4)

(* ------------------------------ OpImage -------------------------------- *)
\* operands $10..$14 = 00 01 7F 80 FF, stack bytes $0100 = A5, $0101 = 3C, $01FE = 5A,
\* pointers at $10FF and $1080, the IRQ vector -> $5000 (40, RTI), and one
\* instruction at each address of OpStarts:
\*   $4000  48        PHA
\*   $4004  68        PLA
\*   $4008  6C FF 10  JMP ($10FF)
\*   $400C  6C 80 10  JMP ($1080)
\*   $4010  10 FB     BPL *-3
\*   $4014  30 FB     BMI *-3
\*   $4018  50 FB     BVC *-3
\*   $401C  70 FB     BVS *-3
\*   $4020  90 FB     BCC *-3
\*   $4024  B0 FB     BCS *-3
\*   $4028  D0 FB     BNE *-3
\*   $402C  F0 FB     BEQ *-3
\*   $4030  D0 05     BNE *+7
\*   $40FC  F0 05     BEQ *+7 into the next page
\*   $4100  D0 FB     BNE *-3 into the previous page
\*   $4200  0A        ASL A
\*   $4204  4A        LSR A
\*   $4208  2A        ROL A
\*   $420C  6A        ROR A
\*   $4210  06 13     ASL $13
\*   $4214  46 11     LSR $11
\*   $4218  26 13     ROL $13
\*   $421C  66 11     ROR $11
\*   $4220  65 10     ADC $10
\*   $4224  65 11     ADC $11
\*   $4228  65 12     ADC $12
\*   $422C  65 13     ADC $13
\*   $4230  65 14     ADC $14
\*   $4234  E5 10     SBC $10
\*   $4238  E5 11     SBC $11
\*   $423C  E5 12     SBC $12
\*   $4240  E5 13     SBC $13
\*   $4244  E5 14     SBC $14
\*   $4248  C5 11     CMP $11
\*   $424C  C5 13     CMP $13
\*   $4250  E4 11     CPX $11
\*   $4254  E4 10     CPX $10
\*   $4258  C4 11     CPY $11
\*   $425C  C4 10     CPY $10
\*   $4300  20 00 60  JSR $6000
\*   $6000  60        RTS
\*   $4400  B5 10     LDA $10,X
\*   $4404  B5 FF     LDA $FF,X
\*   $4408  B6 10     LDX $10,Y
\*   $440C  B6 FF     LDX $FF,Y
OpImage ==
  (17 :> 1) @@ (18 :> 127) @@ (19 :> 128) @@ (20 :> 255) @@ (256 :> 165) @@
  (257 :> 60) @@ (510 :> 90) @@ (4096 :> 18) @@ (4224 :> 120) @@ (4225 :> 154) @@
  (4351 :> 52) @@ (4352 :> 86) @@ (16384 :> 72) @@ (16388 :> 104) @@ (16392 :> 108) @@
  (16393 :> 255) @@ (16394 :> 16) @@ (16396 :> 108) @@ (16397 :> 128) @@ (16398 :> 16) @@
  (16400 :> 16) @@ (16401 :> 251) @@ (16404 :> 48) @@ (16405 :> 251) @@ (16408 :> 80) @@
  (16409 :> 251) @@ (16412 :> 112) @@ (16413 :> 251) @@ (16416 :> 144) @@ (16417 :> 251) @@
  (16420 :> 176) @@ (16421 :> 251) @@ (16424 :> 208) @@ (16425 :> 251) @@ (16428 :> 240) @@
  (16429 :> 251) @@ (16432 :> 208) @@ (16433 :> 5) @@ (16636 :> 240) @@ (16637 :> 5) @@
  (16640 :> 208) @@ (16641 :> 251) @@ (16896 :> 10) @@ (16900 :> 74) @@ (16904 :> 42) @@
  (16908 :> 106) @@ (16912 :> 6) @@ (16913 :> 19) @@ (16916 :> 70) @@ (16917 :> 17) @@
  (16920 :> 38) @@ (16921 :> 19) @@ (16924 :> 102) @@ (16925 :> 17) @@ (16928 :> 101) @@
  (16929 :> 16) @@ (16932 :> 101) @@ (16933 :> 17) @@ (16936 :> 101) @@ (16937 :> 18) @@
  (16940 :> 101) @@ (16941 :> 19) @@ (16944 :> 101) @@ (16945 :> 20) @@ (16948 :> 229) @@
  (16949 :> 16) @@ (16952 :> 229) @@ (16953 :> 17) @@ (16956 :> 229) @@ (16957 :> 18) @@
  (16960 :> 229) @@ (16961 :> 19) @@ (16964 :> 229) @@ (16965 :> 20) @@ (16968 :> 197) @@
  (16969 :> 17) @@ (16972 :> 197) @@ (16973 :> 19) @@ (16976 :> 228) @@ (16977 :> 17) @@
  (16980 :> 228) @@ (16981 :> 16) @@ (16984 :> 196) @@ (16985 :> 17) @@ (16988 :> 196) @@
  (16989 :> 16) @@ (17152 :> 32) @@ (17154 :> 96) @@ (17408 :> 181) @@ (17409 :> 16) @@
  (17412 :> 181) @@ (17413 :> 255) @@ (17416 :> 182) @@ (17417 :> 16) @@ (17420 :> 182) @@
  (17421 :> 255) @@ (20480 :> 64) @@ (24576 :> 96) @@ (65535 :> 80)

\* the addresses of the instructions in OpImage
OpStarts ==
  {16384, 16388, 16392, 16396, 16400, 16404, 16408, 16412, 16416, 16420,
   16424, 16428, 16432, 16636, 16640, 16896, 16900, 16904, 16908, 16912,
   16916, 16920, 16924, 16928, 16932, 16936, 16940, 16944, 16948, 16952,
   16956, 16960, 16964, 16968, 16972, 16976, 16980, 16984, 16988, 17152,
   24576, 17408, 17412, 17416, 17420}

(* ------------- one instruction: clock(), then its operation ------------ *)
\* register values a running program is interrupted with
AVals == {0, 1, 127, 128, 255}
XVals == {0, 1}
YVals == {0, 1}
SpVals == {0, 253, 255}
\* no flag, C, D, D and C, N V Z C
PVals == {0, 1, 8, 9, 195}

\* the machine between two instructions of a program in OpImage
OpInit ==
  /\ a \in AVals /\ x \in XVals /\ y \in YVals /\ stkp \in SpVals
  /\ pc \in OpStarts /\ status \in PVals
  /\ fetched = 0 /\ addr_abs = 0 /\ addr_rel = 0 /\ opcode = 0 /\ cycles = 0
  /\ ram = OpImage
  /\ panicked = FALSE
  /\ overflow_checks \in BOOLEAN
  /\ call = "start" /\ ev = "none" /\ since = 0 /\ c1 = 0 /\ pushedP = -1
  /\ redo = FALSE
  /\ snap = View(St)
  /\ nreset = 1 /\ ninstr = 0 /\ nint = 0 /\ nops = 0

\* the operation of the instruction that the last clock() call started
ExecCall(name, label, s) ==
  /\ ~panicked
  /\ call = "clock" /\ ev = "instr" /\ since = 1
  /\ Entry(opcode).op = name
  /\ Store(s)
  /\ call' = label /\ ev' = "exec"
  /\ UNCHANGED <<overflow_checks, since, c1, snap, redo, nreset, ninstr, nint, nops>>

PhaExec == ExecCall("PHA", "pha", pha(St))

PlaExec == ExecCall("PLA", "pla", pla(St))

JmpExec == ExecCall("JMP", "jmp", jmp(St))

AdcExec == ExecCall("ADC", "adc", adc(St))

SbcExec == ExecCall("SBC", "sbc", sbc(St))

CmpExec == ExecCall("CMP", "cmp", cmp(St))

CpxExec == ExecCall("CPX", "cpx", cpx(St))

CpyExec == ExecCall("CPY", "cpy", cpy(St))

AslExec == ExecCall("ASL", "asl", asl(St))

LsrExec == ExecCall("LSR", "lsr", lsr(St))

RolExec == ExecCall("ROL", "rol", rol(St))

RorExec == ExecCall("ROR", "ror", ror(St))

BccExec == ExecCall("BCC", "bcc", bcc(St))

BcsExec == ExecCall("BCS", "bcs", bcs(St))

BeqExec == ExecCall("BEQ", "beq", beq(St))

BmiExec == ExecCall("BMI", "bmi", bmi(St))

BneExec == ExecCall("BNE", "bne", bne(St))

BplExec == ExecCall("BPL", "bpl", bpl(St))

BvcExec == ExecCall("BVC", "bvc", bvc(St))

BvsExec == ExecCall("BVS", "bvs", bvs(St))

JsrExec == ExecCall("JSR", "jsr", jsr(St))

RtsExec == ExecCall("RTS", "rts", rts(St))

RtiExec == ExecCall("RTI", "rti", rti(St))

\* a direct call of rts() on the stack that jsr() has just left
RtsCall ==
  /\ ~panicked /\ call = "jsr"
  /\ Store(rts(St))
  /\ call' = "rts" /\ ev' = "op"
  /\ UNCHANGED <<overflow_checks, since, c1, snap, redo, nreset, ninstr, nint, nops>>

\* irq() before the first instruction
IrqAtStart == call = "start" /\ IrqCall

OpNext ==
  \/ ClockCall
  \/ PhaExec
  \/ PlaExec
  \/ JmpExec
  \/ AdcExec
  \/ SbcExec
  \/ CmpExec
  \/ CpxExec
  \/ CpyExec
  \/ AslExec
  \/ LsrExec
  \/ RolExec
  \/ RorExec
  \/ BccExec
  \/ BcsExec
  \/ BeqExec
  \/ BmiExec
  \/ BneExec
  \/ BplExec
  \/ BvcExec
  \/ BvsExec
  \/ JsrExec
  \/ RtsExec
  \/ RtiExec
  \/ RtsCall
  \/ IrqAtStart

OpSpec == OpInit /\ [][OpNext]_vars

(* ================================ claims =============================== *)
\* byte at addr in a RAM value
Peek(r, addr) == IF addr \in DOMAIN r THEN r[addr] ELSE 0

\* a clock() call that finds cycles = 0 is being made
Initiates == call' = "clock" /\ cycles = 0

\* C1: a clock() call entered with cycles = 0 on opcode A9 (LDA #imm) returns with
\* the operation applied: a is the operand byte that follows the opcode, Z and N
\* describe it, and pc is two past the opcode (A9 42 at $8000 gives a = $42,
\* Z = 0, N = 0, pc = $8002).
C1_ClockAppliesOperation ==
  [][(Initiates /\ Read(St, pc) = 169 /\ pc + 2 < U16)
       => /\ ~panicked'
          /\ a' = Read(St, pc + 1)
          /\ get_flag(status', ZERO) = (Read(St, pc + 1) = 0)
          /\ get_flag(status', NEGATIVE) = (Read(St, pc + 1) >= 128)
          /\ pc' = pc + 2]_vars

\* C2: a clock() call entered with cycles > 0 only decrements cycles by one, and
\* the counts set by reset() (8), an accepted irq() (7) and nmi() (8) are drained
\* by exactly that many calls; a call that finds cycles = 0 fetches the opcode at pc.
C2_DrainOnly ==
  /\ [][(call' = "clock" /\ cycles > 0)
          => /\ cycles' = cycles - 1
             /\ ~panicked'
             /\ UNCHANGED <<a, x, y, stkp, pc, status, opcode, fetched,
                            addr_abs, addr_rel, ram>>]_vars
  /\ [][(Initiates /\ ~panicked') => opcode' = Read(St, pc)]_vars
  /\ []((ev = "reset" /\ ~panicked) => (since <= 8 /\ cycles = 8 - since))
  /\ []((ev = "irq" /\ ~panicked) => (since <= 7 /\ cycles = 7 - since))
  /\ []((ev = "nmi" /\ ~panicked) => (since <= 8 /\ cycles = 8 - since))

\* C2 witness: the seventh clock() after an accepted irq() has brought cycles to 0
C2_Witness == call = "clock" /\ ev = "irq" /\ since = 7 /\ cycles = 0 /\ ~panicked

\* C3: after a clock() that started a penalty-eligible instruction whose decoder
\* reported a page cross, base_cycles + 1 cycles were charged, the starting call
\* included.
C3_PageCrossPenalty ==
  (ev = "instr" /\ ~panicked /\ c1 = 1 /\ Eligible(opcode))
    => cycles = Entry(opcode).cycles + 1 - since

\* C4: a clock() call that starts an instruction which is not penalty-eligible, or
\* whose decoder reports no page cross, returns with exactly the table's base
\* cycle count charged (this call included).
C4_BaseCycles ==
  [][(Initiates /\ ~(Eligible(Read(St, pc)) /\ ClockDecode(St).ret = 1))
       => /\ ~panicked'
          /\ cycles' = Entry(Read(St, pc)).cycles - 1]_vars

\* C5: reset() leaves a = x = y = 0, sp = $FD, p = U alone, pc = the word at
\* $FFFC/$FFFD, the three latches 0, cycles = 8 and the memory as it was.
C5_ResetState ==
  [][call' = "reset"
       => /\ a' = 0 /\ x' = 0 /\ y' = 0 /\ stkp' = 253
          /\ status' = UNUSED
          /\ pc' = Word(Peek(ram, RESET_VECTOR), Peek(ram, RESET_VECTOR + 1))
          /\ fetched' = 0 /\ addr_abs' = 0 /\ addr_rel' = 0
          /\ cycles' = 8
          /\ ram' = ram
          /\ ~panicked']_vars

\* C6: a reset() that follows a reset() and its eight draining clock() calls
\* leaves the same registers, flags, latches, cycles and memory as the first did.
C6_ResetIdempotent ==
  [][(call' = "reset" /\ ev = "reset" /\ since = 8)
       => (View(St)' = snap /\ ~panicked')]_vars

\* C6 witness: such a second reset() has been made
C6_Witness == call = "reset" /\ redo /\ nreset = 2

\* C7: irq() called with I set changes no register, flag, latch, cycle count or
\* memory byte.
C7_MaskedIrqDropped ==
  [][(call' = "irq" /\ get_flag(status, INTERRUPT_DISABLE))
       => (UNCHANGED <<cpuvars, ram>> /\ ~panicked')]_vars

\* C7 witness: irq() was called after nmi() or brk() had set I, and was dropped
C7_Witness ==
  call = "irq" /\ ev \in {"nmi", "op"} /\ get_flag(status, INTERRUPT_DISABLE) /\ ~panicked

\* C8: irq() called with I clear writes pc high, pc low and then the status byte
\* p with B cleared and U set (I still as before the call) to the stack, and
\* returns with I set, sp three lower, pc = the word at $FFFE/$FFFF and cycles = 7.
C8_IrqSequence ==
  [][(call' = "irq" /\ ~get_flag(status, INTERRUPT_DISABLE))
       => /\ ~panicked'
          /\ Peek(ram', STACK_BASE + stkp) = Hi(pc)
          /\ Peek(ram', STACK_BASE + ((stkp + 255) % 256)) = Lo(pc)
          /\ Peek(ram', STACK_BASE + ((stkp + 254) % 256))
               = set_flag(set_flag(status, BREAK, FALSE), UNUSED, TRUE)
          /\ get_flag(status', INTERRUPT_DISABLE)
          /\ stkp' = (stkp + 253) % 256
          /\ pc' = Word(Peek(ram', IRQ_VECTOR), Peek(ram', IRQ_VECTOR + 1))
          /\ cycles' = 7]_vars

\* C9: nmi() always writes pc high, pc low and a status byte to the stack and
\* returns with sp three lower, I set, pc = the word at $FFFA/$FFFB and cycles = 8.
C9_NmiUnconditional ==
  [][call' = "nmi"
       => /\ ~panicked'
          /\ Peek(ram', STACK_BASE + stkp) = Hi(pc)
          /\ Peek(ram', STACK_BASE + ((stkp + 255) % 256)) = Lo(pc)
          /\ Peek(ram', STACK_BASE + ((stkp + 254) % 256)) = pushedP'
          /\ get_flag(status', INTERRUPT_DISABLE)
          /\ stkp' = (stkp + 253) % 256
          /\ pc' = Word(Peek(ram', NMI_VECTOR), Peek(ram', NMI_VECTOR + 1))
          /\ cycles' = 8]_vars

\* C10: every status byte written to the stack has bit 5 (U) set.
C10_PushedStatusHasU ==
  pushedP # -1 => get_flag(pushedP, UNUSED)


\* C11: PHA writes a at $0100 + sp and leaves sp one lower modulo 256 (at sp = $00
\* it writes $0100 and leaves $FF); PLA leaves sp one higher modulo 256 and loads a
\* from $0100 + that sp (at sp = $FF it reads $0100 and leaves $00); neither fails.
C11_StackWraps ==
  [][/\ call' = "pha"
          => /\ ~panicked'
             /\ Peek(ram', STACK_BASE + stkp) = a
             /\ stkp' = (stkp + 255) % 256
     /\ call' = "pla"
          => /\ ~panicked'
             /\ stkp' = (stkp + 1) % 256
             /\ a' = Peek(ram, STACK_BASE + ((stkp + 1) % 256))]_vars

\* the pointer in the two operand bytes of the instruction at pc
OperandWord == Word(Read(St, (pc + 1) % U16), Read(St, (pc + 2) % U16))

\* C12: the decoder of an indirect instruction leaves addr_abs = (hi << 8) | lo with
\* lo the byte at the pointer and hi the byte at pointer + 1, or at the start of
\* the pointer's page when the pointer's low byte is $FF; JMP then sets pc to it.
C12_IndirectTarget ==
  [][/\ (Initiates /\ Entry(Read(St, pc)).mode = "IND")
          => /\ ~panicked'
             /\ addr_abs' = Word(Read(St, OperandWord),
                                 Read(St, IF Lo(OperandWord) = 255
                                          THEN OperandWord - 255
                                          ELSE OperandWord + 1))
     /\ call' = "jmp" => (pc' = addr_abs /\ ~panicked')]_vars

\* C13: while the host has called only reset(), clock(), irq() and nmi(), no call
\* fails, and a clock() that fetches its opcode at pc = $FFFF completes with pc
\* wrapped to $0000 plus the operand bytes of that opcode.
C13_NoRuntimeFailure ==
  [][nops' = 0
       => /\ ~panicked'
          /\ (Initiates /\ pc = 65535)
               => (opcode' = Read(St, 65535) /\ pc' \in 0..2)]_vars

\* C14: after every clock() call entered with cycles = 0 the U flag is 1.
C14_UnusedSetAfterClock ==
  [][(Initiates /\ ~panicked') => get_flag(status', UNUSED)]_vars

\* C17: the decoder of an immediate instruction leaves addr_abs at the operand
\* byte, the byte right after the opcode, and pc one past the operand.
C17_ImmediateOperand ==
  [][(Initiates /\ Entry(Read(St, pc)).mode = "IMM" /\ ~panicked')
       => /\ addr_abs' = (pc + 1) % U16
          /\ pc' = (pc + 2) % U16]_vars

\* the flag test of the branch method named by a call label
BranchTaken(label, p) ==
  CASE label = "bcc" -> ~get_flag(p, CARRY)
    [] label = "bcs" -> get_flag(p, CARRY)
    [] label = "beq" -> get_flag(p, ZERO)
    [] label = "bne" -> ~get_flag(p, ZERO)
    [] label = "bmi" -> get_flag(p, NEGATIVE)
    [] label = "bpl" -> ~get_flag(p, NEGATIVE)
    [] label = "bvc" -> ~get_flag(p, OVERFLOW)
    [] label = "bvs" -> get_flag(p, OVERFLOW)

BranchLabels == {"bcc", "bcs", "beq", "bne", "bmi", "bpl", "bvc", "bvs"}

\* target of a branch whose operand byte b precedes pc
BranchTarget(b) == (pc + (IF b >= 128 THEN b - 256 ELSE b) + U16) % U16

\* C16: a branch whose flag matches completes with pc = (pc + sign-extended
\* operand) mod 2^16, backward offsets included, and one more cycle, two when the
\* target is in another page than pc; one whose flag does not match changes neither.
C16_BranchTarget ==
  [][call' \in BranchLabels
       => LET tgt == BranchTarget(Read(St, pc - 1))
          IN IF BranchTaken(call', status)
             THEN /\ ~panicked'
                  /\ pc' = tgt
                  /\ cycles' = cycles + (IF Hi(tgt) # Hi(pc) THEN 2 ELSE 1)
             ELSE pc' = pc /\ cycles' = cycles /\ ~panicked']_vars

ShiftLabels == {"asl", "lsr", "rol", "ror"}

\* the 8-bit result of the shift or rotate named by a call label on v, carry-in c
ShiftResult(label, v, c) ==
  CASE label = "asl" -> (2 * v) % 256
    [] label = "lsr" -> v \div 2
    [] label = "rol" -> (2 * v + c) % 256
    [] label = "ror" -> 128 * c + (v \div 2)

\* C18: the decoder of an implied-mode shift or rotate leaves fetched = a; the
\* operation then leaves the shifted a in a and the memory unchanged; in the other
\* modes it leaves the shifted byte of addr_abs at addr_abs and a unchanged.
C18_ShiftOperand ==
  [][/\ (Initiates /\ ~panicked'
           /\ Entry(Read(St, pc)).mode = "IMP"
           /\ Entry(Read(St, pc)).op \in {"ASL", "LSR", "ROL", "ROR"})
          => fetched' = a
     /\ (call' \in ShiftLabels /\ ModeImplied(St))
          => /\ a' = ShiftResult(call', a, CarryIn(St))
             /\ ram' = ram
     /\ (call' \in ShiftLabels /\ ~ModeImplied(St))
          => /\ Peek(ram', addr_abs) = ShiftResult(call', Read(St, addr_abs), CarryIn(St))
             /\ a' = a]_vars

\* a, C, Z, N and V after adding m and the carry flag to a
AddOutcome(m) ==
  LET sum == a + m + CarryIn(St)
      r == sum % 256
  IN /\ ~panicked'
     /\ a' = r
     /\ get_flag(status', CARRY) = (sum > 255)
     /\ get_flag(status', ZERO) = (r = 0)
     /\ get_flag(status', NEGATIVE) = (r >= 128)
     /\ get_flag(status', OVERFLOW) = ((a >= 128) = (m >= 128) /\ (r >= 128) # (a >= 128))
     /\ get_flag(status', DECIMAL_MODE) = get_flag(status, DECIMAL_MODE)

\* C19: ADC leaves a = (a + m + C) mod 256, C = the sum exceeds 255, Z = a is 0,
\* N = bit 7 of a, V = a and m had the same sign and the result has the other;
\* SBC does the same with m XOR $FF; the D flag changes neither result.
C19_AdcSbc ==
  [][/\ call' = "adc" => AddOutcome(Read(St, addr_abs))
     /\ call' = "sbc" => AddOutcome(255 - Read(St, addr_abs))]_vars

\* $7F + $01 with C = 0 and D = 1 has been added: a = $80, V = 1, N = 1, C = 0
C19_Witness ==
  /\ call = "adc" /\ ~panicked
  /\ snap.a = 127 /\ snap.status = DECIMAL_MODE /\ fetched = 1
  /\ a = 128 /\ status = DECIMAL_MODE + OVERFLOW + NEGATIVE

\* C20: CMP, CPX and CPY complete for every register r and operand m, r < m too:
\* a, x and y are unchanged, C = (r >= m), Z = (r = m), N = bit 7 of (r - m) mod 256.
C20_CompareCompletes ==
  [][call' \in {"cmp", "cpx", "cpy"}
       => LET r == IF call' = "cmp" THEN a ELSE IF call' = "cpx" THEN x ELSE y
              m == Read(St, addr_abs)
          IN /\ ~panicked'
             /\ a' = a /\ x' = x /\ y' = y
             /\ get_flag(status', CARRY) = (r >= m)
             /\ get_flag(status', ZERO) = (r = m)
             /\ get_flag(status', NEGATIVE) = (((r - m + 256) % 256) >= 128)]_vars

\* C21: JSR completes with the address of its last operand byte (pc - 1) written
\* high byte at $0100 + sp and low byte one below, sp two lower, and pc = addr_abs;
\* RTS on the stack the first instruction, a JSR, has just left sets pc to the
\* instruction after that JSR and sp to its value before the JSR.
C21_JsrRtsRoundTrip ==
  [][/\ call' = "jsr"
          => /\ ~panicked'
             /\ Peek(ram', STACK_BASE + stkp) = Hi(pc - 1)
             /\ Peek(ram', STACK_BASE + ((stkp + 255) % 256)) = Lo(pc - 1)
             /\ stkp' = (stkp + 254) % 256
             /\ pc' = addr_abs
     /\ (call = "jsr" /\ call' = "rts" /\ ninstr = 1)
          => /\ ~panicked'
             /\ pc' = snap.pc + 3
             /\ stkp' = snap.stkp]_vars

\* C22: the decoder of a zero-page,X (zero-page,Y) instruction with operand byte d
\* completes with addr_abs = (d + x) mod 256 (resp. (d + y) mod 256), also when
\* the sum exceeds $FF, and with pc one past the operand.
C22_ZeroPageIndexWraps ==
  [][(Initiates /\ Entry(Read(St, pc)).mode \in {"ZPX", "ZPY"})
       => LET d == Read(St, (pc + 1) % U16)
              i == IF Entry(Read(St, pc)).mode = "ZPX" THEN x ELSE y
          IN /\ ~panicked'
             /\ addr_abs' = (d + i) % 256
             /\ pc' = (pc + 2) % U16]_vars

\* C23: when irq() was accepted before the first instruction and that instruction,
\* the handler's RTI, runs on the stack irq() left, pc and sp are back at their
\* values before the irq() call and the I flag is clear.
C23_IrqRtiRoundTrip ==
  [][(call' = "rti" /\ nint = 1 /\ ninstr = 1)
       => /\ ~panicked'
          /\ pc' = snap.pc
          /\ stkp' = snap.stkp
          /\ ~get_flag(status', INTERRUPT_DISABLE)]_vars

\* C24: an accepted irq() called with cycles > 0 completes with cycles = 7 and an
\* nmi() called with cycles > 0 completes with cycles = 8, whatever cycles was.
C24_InterruptOverwritesCycles ==
  [][/\ (call' = "irq" /\ IrqAccepted(St) /\ cycles > 0)
          => (~panicked' /\ cycles' = 7)
     /\ (call' = "nmi" /\ cycles > 0)
          => (~panicked' /\ cycles' = 8)]_vars

====
